---- MODULE Spec2Model ----
(***************************************************************************)
(* Model of Khan/log-export: the hourly/daily table builder                *)
(* (create_timestamped_tables.py) and the schema merger                    *)
(* (update_schema.py).                                                     *)
(*                                                                         *)
(* Times are in seconds since the epoch (time_t), table decorators in      *)
(* milliseconds, as in the source.  An hour h is the window                *)
(* [h*3600, (h+1)*3600).  The warehouse is the set of tables of the one    *)
(* dataset the script writes to (_HOURLY_DATASET = _DAILY_DATASET).        *)
(***************************************************************************)
EXTENDS Integers, Sequences, FiniteSets, TLC

\* ------------------------------------------------------------------ bounds
\* The day the modelled run happens in, the hours elapsed since midnight
\* when the first run starts, and the seconds past the hour (cron runs the
\* script "a few minutes after the hour").
FirstDay == 7
StartHours == 2
StartSeconds == 300
\* Seconds the clock may have moved (through the waiter's sleeps) for a
\* further invocation to be started.
MaxDrift == 60
\* Number of invocations of the script, and of signals delivered to them.
MaxRuns == 2
MaxSignals == 1
\* The hours elapsed since midnight when a run finds an old gap to fill.
LateStartHours == 7
\* Schemas given to _merge_schemas on its own: fields per level and levels
\* of nesting below the top.
MaxFields == 2
MaxDepth == 1
\* Five-minute buckets given to the dip detection on its own.
MaxBuckets == 6

\* ------------------------------------------------------- program constants
SecondsPerHour == 3600
HoursPerDay == 24
LookbackDays == 6
WaitAttempts == 10
WaitBase == 60

FirstHour == FirstDay * HoursPerDay
\* The hour every modelled invocation starts in.
LastHour == FirstHour + StartHours
StartNow == LastHour * SecondsPerHour + StartSeconds
LateHour == FirstHour + LateStartHours
LateNow == LateHour * SecondsPerHour + StartSeconds
Hours == FirstHour .. (LateHour - 1)
DayOf(h) == h \div HoursPerDay
Days == { DayOf(h) : h \in Hours }

\* ------------------------------------------------------------ schema trees
\* A field is a record [name, type, mode, fields]; mode "absent" is a dict
\* without the "mode" key, and only RECORD fields carry a "fields" key
\* (modelled as << >> for the others).
Leaf(n, m) == [name |-> n, type |-> "STRING", mode |-> m, fields |-> << >>]
Rec(n, m, fs) == [name |-> n, type |-> "RECORD", mode |-> m, fields |-> fs]
TLeaf(n, t) == [name |-> n, type |-> t, mode |-> "absent", fields |-> << >>]

FieldNames(s) == { s[k].name : k \in 1..Len(s) }

\* streaming_map = {field['name']: field for field in streaming_schema}:
\* the position of the (last) field called n.
MapIndex(s, n) == CHOOSE k \in 1..Len(s) :
                     /\ s[k].name = n
                     /\ \A j \in (k+1)..Len(s) : s[j].name # n

RECURSIVE _merge_schemas(_, _)
RECURSIVE MergeLoop(_, _, _, _)
\* The for loop of _merge_schemas: acc is the local copy (whose first
\* Len(s) dicts are the caller's own dicts, mutated in place), l the fields
\* still to visit, s the schema the name map was built from.
MergeLoop(acc, s, l, k) ==
    IF k > Len(l) THEN acc
    ELSE LET lf == l[k] IN
         IF lf.name \notin FieldNames(s)
         THEN MergeLoop(Append(acc, lf), s, l, k + 1)
         ELSE IF lf.type = "RECORD"
         THEN LET ix == MapIndex(s, lf.name)
                  sub == _merge_schemas(lf.fields, acc[ix].fields)
              IN MergeLoop([acc EXCEPT ![ix].fields = sub], s, l, k + 1)
         ELSE MergeLoop(acc, s, l, k + 1)

MergeTopLevelOnly(s, l) ==
    s \o SelectSeq(l, LAMBDA f : f.name \notin FieldNames(s))
MergeAppendingAll(s, l) == s \o l
_merge_schemas(streaming_schema, schema_that_java_will_write) ==
    MergeLoop(streaming_schema, streaming_schema,
              schema_that_java_will_write, 1)

RECURSIVE MergeRaises(_, _)
\* streaming_field['fields'] raises KeyError when the field of that name in
\* the base schema is not a record.
MergeRaises(s, l) ==
    \E k \in 1..Len(l) :
       /\ l[k].name \in FieldNames(s)
       /\ l[k].type = "RECORD"
       /\ LET sf == s[MapIndex(s, l[k].name)] IN
            \/ sf.type # "RECORD"
            \/ MergeRaises(l[k].fields, sf.fields)

RECURSIVE _delete_mode(_)
_delete_mode(schema) ==
    [k \in 1..Len(schema) |->
        LET f == schema[k]
            m == IF f.mode = "REPEATED" THEN "REPEATED" ELSE "absent"
        IN IF f.type = "RECORD"
           THEN [f EXCEPT !.mode = m, !.fields = _delete_mode(f.fields)]
           ELSE [f EXCEPT !.mode = m]]

\* merge_and_update_schema, given the schema read from the table and
\* merge_with: the schema it writes back, or "none" when it writes nothing.
\* new_schema's first Len(orig) dicts ARE orig_schema's dicts (the copy in
\* _merge_schemas is shallow and _delete_mode works in place), so at the
\* change test orig_schema holds the merged, mode-stripped prefix.
NewSchema(orig, merge_with) == _delete_mode(_merge_schemas(orig, merge_with))
OrigAfterMerge(orig, merge_with) ==
    SubSeq(NewSchema(orig, merge_with), 1, Len(orig))
\* merge_with after the call: a field that was appended to new_schema is the
\* same dict there and loses its modes; the subfields of a record that was
\* merged are the first dicts of the merged subfield list.
MergeWithAfterMerge(orig, merge_with) ==
    [k \in 1..Len(merge_with) |->
        LET lf == merge_with[k] IN
        IF lf.name \notin FieldNames(orig) THEN _delete_mode(<< lf >>)[1]
        ELSE IF lf.type = "RECORD"
        THEN [lf EXCEPT !.fields =
                SubSeq(NewSchema(orig, merge_with)[MapIndex(orig, lf.name)].fields,
                       1, Len(lf.fields))]
        ELSE lf]
SchemaToWrite(orig, merge_with, dry) ==
    IF OrigAfterMerge(orig, merge_with) = << >> THEN "none"
    ELSE IF NewSchema(orig, merge_with) = OrigAfterMerge(orig, merge_with)
    THEN "none"
    ELSE IF dry THEN "none"
    ELSE "update"

RECURSIVE Covers(_, _)
\* Every column of schema h, at every nesting level, is a column of d.
Covers(d, h) ==
    \A k \in 1..Len(h) :
       \E j \in 1..Len(d) :
          /\ d[j].name = h[k].name
          /\ (h[k].type = "RECORD" => Covers(d[j].fields, h[k].fields))

\* The schemas the streaming table has over time (columns are only ever
\* added): the base schema, then a new subfield in the app_logs record,
\* then a new top-level elog column.
StreamSchema(v) ==
    CASE v = 1 -> << Leaf("request_id", "NULLABLE"),
                     Rec("app_logs", "REPEATED",
                         << Leaf("message", "NULLABLE") >>) >>
      [] v = 2 -> << Leaf("request_id", "NULLABLE"),
                     Rec("app_logs", "REPEATED",
                         << Leaf("message", "NULLABLE"),
                            Leaf("level", "NULLABLE") >>) >>
      [] v = 3 -> << Leaf("request_id", "NULLABLE"),
                     Rec("app_logs", "REPEATED",
                         << Leaf("message", "NULLABLE"),
                            Leaf("level", "NULLABLE") >>),
                     Leaf("elog_country", "NULLABLE") >>
      [] OTHER -> << >>
SchemaVersions == 1..3

\* ----------------------------------------------------------------- planner
\* Table ids of the dataset that start with 'requestlogs_', as sort keys:
\* 'requestlogs_YYYYMMDD' sorts just before 'requestlogs_YYYYMMDD_00'.
HourKey(h) == DayOf(h) * (HoursPerDay + 1) + (h % HoursPerDay) + 1
DayKey(d) == d * (HoursPerDay + 1)

RECURSIVE SortedSeq(_)
SortedSeq(S) == IF S = {} THEN << >>
                ELSE LET m == CHOOSE x \in S : \A y \in S : x <= y
                     IN << m >> \o SortedSeq(S \ {m})

\* _times_of_missing_tables(end_time): hourT/dayT are the hourly and daily
\* tables the listing shows, anyOutput whether `bq ls` printed anything at
\* all.
MissingUpToEndTime(endHour, midnight, hourT, dayT, anyOutput) ==
    LET keys == { HourKey(h) : h \in hourT } \cup { DayKey(d) : d \in dayT }
        start == IF anyOutput THEN endHour - LookbackDays * HoursPerDay
                 ELSE midnight
        first == CHOOSE x \in keys : \A y \in keys : x <= y
    IN SortedSeq({ h \in start .. endHour :
                     /\ HourKey(h) \notin keys
                     /\ (anyOutput => HourKey(h) > first) })
_times_of_missing_tables(endHour, midnight, hourT, dayT, anyOutput) ==
    LET keys == { HourKey(h) : h \in hourT } \cup { DayKey(d) : d \in dayT }
        start == IF anyOutput THEN endHour - LookbackDays * HoursPerDay
                 ELSE midnight
        first == CHOOSE x \in keys : \A y \in keys : x <= y
    IN SortedSeq({ h \in start .. (endHour - 1) :
                     /\ HourKey(h) \notin keys
                     /\ (anyOutput => HourKey(h) > first) })

\* table_names[0] raises IndexError when the listing is not empty but holds
\* no requestlogs_ table.
PlannerRaises(hourTables, dayTables, anyOutput) ==
    anyOutput /\ hourTables = {} /\ dayTables = {}

\* ------------------------------------------------------------------- state
VARIABLES
    pc,          \* position of the script: "idle" = no invocation running
    runs,        \* invocations started so far
    interactive, \* args.interactive of the running invocation
    dry_run,     \* args.dry_run of the running invocation
    now,         \* the clock, time_t
    hourly,      \* hour -> [st, sch]: the hourly table and its schema version
    daily,       \* day -> [exists, schema]: the daily table
    appended,    \* hour -> times its rows were appended to the daily table
    tempExists,  \* some subquery_* temp table is in the dataset
    stream,      \* schema version of the streaming table during this run
    todo,        \* times_to_build still to iterate over
    cur,         \* next_hourly_table_time (0: none)
    attempt,     \* 1 = first _create_hourly_table call, 2 = the retry
    p_search,    \* parameter search_harder_for_loglines of the call
    p_inter,     \* parameter interactive of the call
    p_dry,       \* parameter dry_run of the call
    end_ms,      \* the waiter's end_ms / sql_dict['end_ms']
    i,           \* the waiter's loop counter
    sleeps,      \* durations slept by the current waiter call, in 1/512 s
    exc,         \* the exception being handled
    calls,       \* kinds of mutating bq calls issued for the current window
    signals,     \* signals delivered so far
    sigWin,      \* the window in progress when the last signal arrived
    skipped,     \* the current call returned at "already exists"
    aborted,     \* some window of this invocation ended in an except clause
    exitStatus,  \* exit status of the last invocation (-1: none ended yet)
    unit         \* the one function called on its own, with its arguments
                 \* and locals ([fn |-> "none"] while the script runs)

script == << pc, runs, interactive, dry_run, now, hourly, daily, appended,
             tempExists, stream, todo, cur, attempt, p_search, p_inter, p_dry,
             end_ms, i, sleeps, exc, calls, signals, sigWin, skipped, aborted,
             exitStatus >>
vars == << script, unit >>

warehouse == << hourly, daily, appended, tempExists, stream >>
flags == << interactive, dry_run >>
params == << p_search, p_inter, p_dry >>
waiter == << end_ms, i, sleeps >>

Absent == [st |-> "absent", sch |-> 0]
NoDaily == [exists |-> FALSE, schema |-> << >>]

\* No invocation of the script has started yet.
NotStarted ==
    /\ pc = "idle"
    /\ runs = 0
    /\ interactive = FALSE
    /\ dry_run = FALSE
    /\ now = StartNow
    /\ hourly = [h \in Hours |-> Absent]
    /\ daily = [d \in Days |-> NoDaily]
    /\ appended = [h \in Hours |-> 0]
    /\ tempExists = FALSE
    /\ stream = 1
    /\ todo = << >>
    /\ cur = 0
    /\ attempt = 0
    /\ p_search = FALSE
    /\ p_inter = FALSE
    /\ p_dry = FALSE
    /\ end_ms = 0
    /\ i = 0
    /\ sleeps = << >>
    /\ exc = "none"
    /\ calls = {}
    /\ signals = 0
    /\ sigWin = 0
    /\ skipped = FALSE
    /\ aborted = FALSE
    /\ exitStatus = -1

NoUnit == [fn |-> "none"]

Init ==
    /\ NotStarted
    /\ unit = NoUnit

\* ------------------------------------------------------------ control flow
\* Locals of _table_decorator_end_time and sql_dict['end_ms'] are dead.
ClearWaiter ==
    /\ end_ms' = 0
    /\ i' = 0
    /\ sleeps' = << >>

\* No window is in progress: the per-window locals are dead.
ClearWindow ==
    /\ cur' = 0
    /\ attempt' = 0
    /\ p_search' = FALSE
    /\ p_inter' = FALSE
    /\ p_dry' = FALSE
    /\ ClearWaiter
    /\ exc' = "none"
    /\ skipped' = FALSE

\* The process ends: main returned (status 0: nothing after main() sets an
\* exit status) or an exception left main (status 1).
EndRun(status) ==
    /\ pc' = "idle"
    /\ exitStatus' = status
    /\ todo' = << >>
    /\ ClearWindow

\* The call goes on to its next statement.
Goto(l) ==
    /\ pc' = l
    /\ UNCHANGED exc

\* An exception other than RaisedSignal raised inside the try of main's
\* loop: control goes to `except Exception`.
Raise(e) ==
    /\ pc' = "err_cleanup"
    /\ exc' = e
    /\ ClearWaiter

\* python create_timestamped_tables.py [-i] [-n]
\* cron (or someone by hand) starts the script: __main__ parses the flags
\* and calls main.
RunStarts ==
    /\ pc = "idle"
    /\ runs < MaxRuns
    /\ \E fi \in BOOLEAN, fd \in BOOLEAN :
          /\ interactive' = fi
          /\ dry_run' = fd
    /\ \E v \in SchemaVersions : v >= stream /\ stream' = v
    /\ runs' = runs + 1
    /\ pc' = "plan"
    /\ calls' = {}
    /\ sigWin' = 0
    /\ aborted' = FALSE
    /\ exitStatus' = -1
    /\ UNCHANGED << now, hourly, daily, appended, tempExists, todo, cur,
                    attempt, params, waiter, exc, signals, skipped >>
    /\ UNCHANGED unit

\* The runs happen within MaxDrift seconds of the first one's start.
StartRun ==
    /\ now - StartNow <= MaxDrift
    /\ now \div SecondsPerHour = LastHour
    /\ RunStarts

\* main, up to the for loop: times_to_build = _times_of_missing_tables(...).
\* A failing `bq ls` or the IndexError leaves main as an exception.
Plan ==
    /\ pc = "plan"
    /\ \E ok \in BOOLEAN :
         LET endHour == now \div SecondsPerHour
             hourTables == { h \in Hours : hourly[h].st # "absent" }
             dayTables == { d \in Days : daily[d].exists }
             anyOutput == hourTables # {} \/ dayTables # {} \/ tempExists
         IN IF ok /\ ~PlannerRaises(hourTables, dayTables, anyOutput)
            THEN /\ todo' = _times_of_missing_tables(
                               endHour, DayOf(endHour) * HoursPerDay,
                               hourTables, dayTables, anyOutput)
                 /\ pc' = "loop"
                 /\ UNCHANGED << cur, attempt, params, waiter, exc, skipped,
                                 exitStatus >>
            ELSE EndRun(1)
    /\ UNCHANGED << runs, flags, now, warehouse, calls, signals, sigWin,
                    aborted >>
    /\ UNCHANGED unit

\* The first call _create_hourly_table(next_hourly_table_time, interactive,
\* dry_run): the two flags are passed by position, so they land in
\* search_harder_for_loglines and interactive, and dry_run keeps its default.
FirstCallParams(fi, fd) == << fi, fd, FALSE >>
\* _create_hourly_table(t, search_harder_for_loglines=True,
\*                      interactive=interactive, dry_run=dry_run)
RetryCallParams(fi, fd) == << TRUE, fi, fd >>

\* The head of `for next_hourly_table_time in times_to_build`.
Loop ==
    /\ pc = "loop"
    /\ IF todo = << >>
       THEN /\ EndRun(0)
       ELSE /\ cur' = Head(todo)
            /\ todo' = Tail(todo)
            /\ attempt' = 1
            /\ p_search' = FirstCallParams(interactive, dry_run)[1]
            /\ p_inter' = FirstCallParams(interactive, dry_run)[2]
            /\ p_dry' = FirstCallParams(interactive, dry_run)[3]
            /\ pc' = "begin"
            /\ UNCHANGED << waiter, exc, skipped, exitStatus >>
    /\ calls' = {}
    /\ UNCHANGED << runs, flags, now, warehouse, signals, sigWin, aborted >>
    /\ UNCHANGED unit

\* ------------------------------------------------------------------ waiter
RECURSIVE Pow(_, _)
Pow(b, e) == IF e = 0 THEN 1 ELSE b * Pow(b, e - 1)

\* wait = 60 * (1.5 ** i), in units of 1/512 second (exact for i < 10).
WaitUnit == Pow(2, 9)
WaitAsConstant(k) == WaitBase * Pow(2, 9)
Wait(k) == WaitBase * Pow(3, k) * Pow(2, 9 - k)

\* The first candidate end of the table decorator: 16 minutes past end_time.
FirstEndMs(end_time) == (end_time + 16 * 60) * 1000
NextEndMs(ms) == ms + (5 * 60) * 1000

EndTimeOf(h) == h * SecondsPerHour + SecondsPerHour

\* _create_hourly_table up to sql_dict: the streaming schema is read (a
\* failing read is swallowed by update_schema.schema) and end_ms is either
\* the present or what _table_decorator_end_time finds.
Begin ==
    /\ pc = "begin"
    /\ IF p_search
       THEN /\ end_ms' = now * 1000
            /\ pc' = "show"
       ELSE /\ end_ms' = FirstEndMs(EndTimeOf(cur))
            /\ pc' = "wait1"
    /\ i' = 0
    /\ sleeps' = << >>
    /\ skipped' = FALSE
    /\ UNCHANGED << runs, flags, now, warehouse, todo, cur, attempt, params,
                    exc, calls, signals, sigWin, aborted, exitStatus >>
    /\ UNCHANGED unit

\* One turn of `while end_ms < _now() * 1000`: a readiness poll that says
\* ready, says not ready, or fails.
WaitPast ==
    /\ pc = "wait1"
    /\ IF end_ms < now * 1000
       THEN \E r \in {"ready", "behind", "error"} :
               CASE r = "ready" -> /\ Goto("show")
                                   /\ UNCHANGED waiter
                 [] r = "behind" -> /\ Goto("wait1")
                                    /\ end_ms' = NextEndMs(end_ms)
                                    /\ UNCHANGED << i, sleeps >>
                 [] OTHER -> Raise("CalledProcessError")
       ELSE /\ Goto("wait2")
            /\ UNCHANGED waiter
    /\ UNCHANGED << runs, flags, now, warehouse, todo, cur, attempt, params,
                    calls, signals, sigWin, skipped, aborted, exitStatus >>
    /\ UNCHANGED unit

\* One turn of `for i in xrange(10)`: poll at end_ms = now, return when
\* ready, else sleep 60 * 1.5**i; after the last turn, RuntimeError.
WaitBoundMinusOne == WaitAttempts - 1
WaitBound == WaitAttempts
WaitNow ==
    /\ pc = "wait2"
    /\ IF i < WaitBound
       THEN \E r \in {"ready", "behind", "error"} :
               CASE r = "ready" -> /\ Goto("show")
                                   /\ end_ms' = now * 1000
                                   /\ UNCHANGED << now, i, sleeps >>
                 [] r = "behind" -> /\ Goto("wait2")
                                    /\ end_ms' = now * 1000
                                    /\ sleeps' = Append(sleeps, Wait(i))
                                    /\ now' = now + Wait(i) \div WaitUnit
                                    /\ i' = i + 1
                 [] OTHER -> /\ Raise("CalledProcessError")
                             /\ UNCHANGED now
       ELSE /\ Raise("RuntimeError")
            /\ UNCHANGED now
    /\ UNCHANGED << runs, flags, warehouse, todo, cur, attempt, params,
                    calls, signals, sigWin, skipped, aborted, exitStatus >>
    /\ UNCHANGED unit

\* ------------------------------------------------------- building a window
Issue(kind) == calls' = calls \cup {kind}

\* `bq show hourly_table`: "If the hourly table already exists, then we have
\* a noop."
TableExists(h) == hourly[h].st # "absent"

Show ==
    /\ pc = "show"
    /\ IF TableExists(cur)
       THEN /\ skipped' = TRUE
            /\ pc' = "ret"
       ELSE /\ skipped' = FALSE
            /\ pc' = "mk"
    /\ i' = 0
    /\ sleeps' = << >>
    /\ UNCHANGED << runs, flags, now, warehouse, todo, cur, attempt, params,
                    end_ms, exc, calls, signals, sigWin, aborted,
                    exitStatus >>
    /\ UNCHANGED unit

\* `bq mk --expiration 3000 -t vm_subtable`: issued whatever dry_run says.
Mk ==
    /\ pc = "mk"
    /\ Issue("mk")
    /\ \E ok \in BOOLEAN :
          IF ok THEN /\ tempExists' = TRUE
                     /\ Goto("q_sub")
                     /\ UNCHANGED waiter
          ELSE /\ Raise("CalledProcessError")
               /\ UNCHANGED tempExists
    /\ UNCHANGED << runs, flags, now, hourly, daily, appended, stream, todo,
                    cur, attempt, params, signals, sigWin, skipped, aborted,
                    exitStatus >>
    /\ UNCHANGED unit

\* A `bq query --destination_table ...`: with dry_run the command line
\* carries --dry_run and the warehouse is left alone.
QueryRunsForReal == ~p_dry

\* _VM_SUBTABLE_QUERY into the temp table.
QuerySub ==
    /\ pc = "q_sub"
    /\ IF QueryRunsForReal THEN Issue("query") ELSE UNCHANGED calls
    /\ \E ok \in BOOLEAN :
          IF ok THEN Goto("q_nonvm") /\ UNCHANGED waiter
          ELSE Raise("CalledProcessError")
    /\ UNCHANGED << runs, flags, now, warehouse, todo, cur, attempt, params,
                    signals, sigWin, skipped, aborted, exitStatus >>
    /\ UNCHANGED unit

\* _NON_VM_SUBTABLE_QUERY into the hourly table: the table now exists and
\* holds the rows of the simple modules only.  SELECT * gives it the
\* streaming table's schema of the moment.
QueryNonVm ==
    /\ pc = "q_nonvm"
    /\ IF QueryRunsForReal THEN Issue("query") ELSE UNCHANGED calls
    /\ \E ok \in BOOLEAN :
          IF ok
          THEN /\ IF QueryRunsForReal
                  THEN hourly' = [hourly EXCEPT
                             ![cur] = [st |-> "simple", sch |-> stream]]
                  ELSE UNCHANGED hourly
               /\ Goto("q_vm")
               /\ UNCHANGED waiter
          ELSE /\ Raise("CalledProcessError")
               /\ UNCHANGED hourly
    /\ UNCHANGED << runs, flags, now, daily, appended, tempExists, stream,
                    todo, cur, attempt, params, signals, sigWin, skipped,
                    aborted, exitStatus >>
    /\ UNCHANGED unit

\* _VM_MODULES_QUERY appended to the hourly table: both populations.  It is
\* the last reader of sql_dict.
QueryVm ==
    /\ pc = "q_vm"
    /\ IF QueryRunsForReal THEN Issue("query") ELSE UNCHANGED calls
    /\ \E ok \in BOOLEAN :
          IF ok
          THEN /\ IF QueryRunsForReal
                  THEN hourly' = [hourly EXCEPT ![cur].st = "built"]
                  ELSE UNCHANGED hourly
               /\ Goto("validate")
               /\ ClearWaiter
          ELSE /\ Raise("CalledProcessError")
               /\ UNCHANGED hourly
    /\ UNCHANGED << runs, flags, now, daily, appended, tempExists, stream,
                    todo, cur, attempt, params, signals, sigWin, skipped,
                    aborted, exitStatus >>
    /\ UNCHANGED unit

\* _hourly_logs_seem_complete(start_time): the bucket query fails when the
\* table is not there (or for any other reason), else the dip detector
\* gives its verdict.  After "complete" control goes to the schema merge,
\* or straight to the copy under dry_run.
AfterComplete == IF p_dry THEN "cp" ELSE "merge"
\* After "incomplete": the delete and `raise HourlyTableIncomplete()`.
PublishAnyway == "merge"
AfterIncomplete == "inc_rm"
Validate ==
    /\ pc = "validate"
    /\ \E r \in {"complete", "incomplete", "error"} :
          CASE r = "error" \/ ~TableExists(cur) ->
                  /\ Raise("CalledProcessError")
                  /\ UNCHANGED hourly
            [] r = "complete" /\ TableExists(cur) ->
                  /\ hourly' = [hourly EXCEPT ![cur].st = "passed"]
                  /\ Goto(AfterComplete)
                  /\ UNCHANGED waiter
            [] OTHER ->
                  /\ hourly' = [hourly EXCEPT ![cur].st = "failed"]
                  /\ Goto(AfterIncomplete)
                  /\ UNCHANGED waiter
    /\ UNCHANGED << runs, flags, now, daily, appended, tempExists, stream,
                    todo, cur, attempt, params, calls, signals, sigWin,
                    skipped, aborted, exitStatus >>
    /\ UNCHANGED unit

\* _remove_tables_at_time(table_time): `bq rm -t -f`; a failing command is
\* swallowed ("It didn't exist or we couldn't delete it").
RemoveAllOfDay(ok) ==
    [h \in Hours |-> IF ok /\ DayOf(h) = DayOf(cur) THEN Absent ELSE hourly[h]]
AfterRemove(ok) ==
    IF ok THEN [hourly EXCEPT ![cur] = Absent] ELSE hourly
_remove_tables_at_time ==
    /\ Issue("rm")
    /\ \E ok \in BOOLEAN : hourly' = AfterRemove(ok)

\* What main does with HourlyTableIncomplete: the inner except clause
\* catches the one of the first call and calls again; the one of the second
\* call is an Exception like any other.
RetryOn(n) == n = 1

\* The validator said incomplete: the table is removed, HourlyTableIncomplete
\* is raised.
Incomplete ==
    /\ pc = "inc_rm"
    /\ _remove_tables_at_time
    /\ IF RetryOn(attempt)
       THEN /\ attempt' = attempt + 1
            /\ p_search' = RetryCallParams(interactive, dry_run)[1]
            /\ p_inter' = RetryCallParams(interactive, dry_run)[2]
            /\ p_dry' = RetryCallParams(interactive, dry_run)[3]
            /\ Goto("begin")
            /\ UNCHANGED waiter
       ELSE /\ Raise("HourlyTableIncomplete")
            /\ UNCHANGED << attempt, params >>
    /\ UNCHANGED << runs, flags, now, daily, appended, tempExists, stream,
                    todo, cur, signals, sigWin, skipped, aborted,
                    exitStatus >>
    /\ UNCHANGED unit

\* ---------------------------------------------------------------- publish
\* update_schema.schema(project, table): [] when the command fails
\* ("probably 'table does not exist'").
SchemaRead(exists, value, ok) == IF exists /\ ok THEN value ELSE << >>

\* hourly_table_schema = update_schema.schema(_PROJECT, hourly_table), then
\* update_schema.merge_and_update_schema(_PROJECT, daily_table,
\* merge_with=hourly_table_schema): the daily schema is read, merged and,
\* when the change test says so, written back with `bq update`.
MergeSchema ==
    /\ pc = "merge"
    /\ \E hok \in BOOLEAN, dok \in BOOLEAN, uok \in BOOLEAN :
         LET d == DayOf(cur)
             merge_with == SchemaRead(TableExists(cur),
                                      StreamSchema(hourly[cur].sch), hok)
             orig == SchemaRead(daily[d].exists, daily[d].schema, dok)
         IN IF MergeRaises(orig, merge_with)
            THEN /\ Raise("KeyError")
                 /\ UNCHANGED << daily, calls >>
            ELSE IF SchemaToWrite(orig, merge_with, FALSE) = "update"
            THEN /\ Issue("update")
                 /\ IF uok
                    THEN /\ daily' = [daily EXCEPT ![d].schema =
                                         NewSchema(orig, merge_with)]
                         /\ Goto("cp")
                         /\ UNCHANGED waiter
                    ELSE /\ Raise("CalledProcessError")
                         /\ UNCHANGED daily
            ELSE /\ Goto("cp")
                 /\ UNCHANGED << daily, calls, waiter >>
    /\ UNCHANGED << runs, flags, now, hourly, appended, tempExists, stream,
                    todo, cur, attempt, params, signals, sigWin, skipped,
                    aborted, exitStatus >>
    /\ UNCHANGED unit

\* `bq cp --append_table hourly_table daily_table` (skipped under dry_run).
\* The copy creates the daily table with the hourly table's schema when
\* there is none, and fails when the daily table lacks a column ("Otherwise
\* the `cp` command below will fail").
CopyAppend ==
    /\ pc = "cp"
    /\ IF p_dry
       THEN /\ Goto("ret")
            /\ UNCHANGED << daily, appended, calls, waiter >>
       ELSE /\ Issue("cp")
            /\ \E ok \in BOOLEAN :
                 LET d == DayOf(cur)
                     hs == StreamSchema(hourly[cur].sch)
                     fits == ~daily[d].exists \/ Covers(daily[d].schema, hs)
                 IN IF ok /\ fits /\ TableExists(cur)
                    THEN /\ appended' = [appended EXCEPT ![cur] = @ + 1]
                         /\ daily' = [daily EXCEPT ![d] =
                               IF daily[d].exists THEN daily[d]
                               ELSE [exists |-> TRUE, schema |-> hs]]
                         /\ Goto("ret")
                         /\ UNCHANGED waiter
                    ELSE /\ Raise("CalledProcessError")
                         /\ UNCHANGED << daily, appended >>
    /\ UNCHANGED << runs, flags, now, hourly, tempExists, stream, todo, cur,
                    attempt, params, signals, sigWin, skipped, aborted,
                    exitStatus >>
    /\ UNCHANGED unit

\* _create_hourly_table returned: the try statement is left, "DONE
\* processing" is logged, the loop goes on.
Return ==
    /\ pc = "ret"
    /\ pc' = "loop"
    /\ ClearWindow
    /\ UNCHANGED << runs, flags, now, warehouse, todo, calls, signals,
                    sigWin, aborted, exitStatus >>
    /\ UNCHANGED unit

\* ---------------------------------------------------------------- clean-up
\* except Exception: the table is removed; `continue` goes on to the next
\* window.
AfterError == "loop"
ErrCleanup ==
    /\ pc = "err_cleanup"
    /\ _remove_tables_at_time
    /\ aborted' = TRUE
    /\ pc' = AfterError
    /\ ClearWindow
    /\ UNCHANGED << runs, flags, now, daily, appended, tempExists, stream,
                    todo, signals, sigWin, exitStatus >>
    /\ UNCHANGED unit

\* except RaisedSignal: the table is removed and main returns.
SigCleanup ==
    /\ pc = "sig_cleanup"
    /\ _remove_tables_at_time
    /\ aborted' = TRUE
    /\ EndRun(0)
    /\ UNCHANGED << runs, flags, now, daily, appended, tempExists, stream,
                    signals, sigWin >>
    /\ UNCHANGED unit

\* The positions of main that lie inside the outer try statement.
InTry == { "begin", "wait1", "wait2", "show", "mk", "q_sub", "q_nonvm",
           "q_vm", "validate", "inc_rm", "merge", "cp", "ret" }

\* SIGINT or SIGTERM: _signal_handler raises RaisedSignal at the point the
\* script has reached.  Inside the try it lands in `except RaisedSignal`;
\* anywhere else (before the loop, between two windows, inside an except
\* clause) nothing catches it and it leaves main.
Signal ==
    /\ pc # "idle"
    /\ signals < MaxSignals
    /\ signals' = signals + 1
    /\ sigWin' = cur
    /\ IF pc \in InTry
       THEN /\ pc' = "sig_cleanup"
            /\ exc' = "RaisedSignal"
            /\ ClearWaiter
            /\ UNCHANGED << todo, cur, attempt, params, skipped, aborted,
                            exitStatus >>
       ELSE /\ aborted' = (aborted \/ cur # 0)
            /\ EndRun(1)
    /\ UNCHANGED << runs, flags, now, warehouse, calls >>
    /\ UNCHANGED unit

Next ==
    \/ StartRun
    \/ Plan
    \/ Loop
    \/ Begin
    \/ WaitPast
    \/ WaitNow
    \/ Show
    \/ Mk
    \/ QuerySub
    \/ QueryNonVm
    \/ QueryVm
    \/ Validate
    \/ Incomplete
    \/ MergeSchema
    \/ CopyAppend
    \/ Return
    \/ ErrCleanup
    \/ SigCleanup
    \/ Signal

Spec == Init /\ [][Next]_vars

\* ------------------------------------------------- a run that fills a gap
\* The tables of today's earlier hours were built by earlier runs and
\* appended to today's daily table, except the one of hour LateGap, which is
\* missing; the script is started LateStartHours after midnight.
LateGap == FirstHour + 1
LateInit ==
    /\ pc = "idle"
    /\ runs = 0
    /\ interactive = FALSE
    /\ dry_run = FALSE
    /\ now = LateNow
    /\ hourly = [h \in Hours |->
                   IF h = LateGap THEN Absent ELSE [st |-> "passed", sch |-> 1]]
    /\ daily = [d \in Days |-> [exists |-> TRUE, schema |-> StreamSchema(1)]]
    /\ appended = [h \in Hours |-> IF h = LateGap THEN 0 ELSE 1]
    /\ tempExists = FALSE
    /\ stream = 1
    /\ todo = << >>
    /\ cur = 0
    /\ attempt = 0
    /\ p_search = FALSE
    /\ p_inter = FALSE
    /\ p_dry = FALSE
    /\ end_ms = 0
    /\ i = 0
    /\ sleeps = << >>
    /\ exc = "none"
    /\ calls = {}
    /\ signals = 0
    /\ sigWin = 0
    /\ skipped = FALSE
    /\ aborted = FALSE
    /\ exitStatus = -1
    /\ unit = NoUnit

StartLateRun ==
    /\ now - LateNow <= MaxDrift
    /\ now \div SecondsPerHour = LateHour
    /\ RunStarts

LateNext ==
    \/ StartLateRun
    \/ Plan
    \/ Loop
    \/ Begin
    \/ WaitPast
    \/ WaitNow
    \/ Show
    \/ Mk
    \/ QuerySub
    \/ QueryNonVm
    \/ QueryVm
    \/ Validate
    \/ Incomplete
    \/ MergeSchema
    \/ CopyAppend
    \/ Return
    \/ ErrCleanup
    \/ SigCleanup
    \/ Signal

LateSpec == LateInit /\ [][LateNext]_vars

TypeOK ==
    /\ pc \in InTry \cup {"idle", "plan", "loop", "err_cleanup",
                          "sig_cleanup"}
    /\ runs \in 0..MaxRuns
    /\ attempt \in 0..2
    /\ i \in 0..WaitAttempts
    /\ cur \in Hours \cup {0}
    /\ \A h \in Hours : hourly[h].st \in
          {"absent", "simple", "built", "passed", "failed"}
    /\ exitStatus \in {-1, 0, 1}

\* ------------------------------------------------- _merge_schemas, alone
\* The schemas of at most MaxFields fields per level, names unique per
\* level, records nested MaxDepth deep.
FieldNameSet == {"a", "b"}
LeafTypes == {"STRING", "INTEGER"}
UniqueNames(s) ==
    \A j, k \in 1..Len(s) : j # k => s[j].name # s[k].name
SchemasOver(F) ==
    { s \in UNION { [1..k -> F] : k \in 0..MaxFields } : UniqueNames(s) }
RECURSIVE FieldsOfDepth(_)
FieldsOfDepth(d) ==
    LET leaves == { TLeaf(n, t) : n \in FieldNameSet, t \in LeafTypes }
    IN IF d = 0 THEN leaves
       ELSE leaves \cup { Rec(n, "absent", fs) :
                             n \in FieldNameSet,
                             fs \in SchemasOver(FieldsOfDepth(d - 1)) }
Schemas == SchemasOver(FieldsOfDepth(MaxDepth))

\* new_schema = _merge_schemas(orig_schema, merge_with) is about to be
\* evaluated.
MergeInit ==
    /\ NotStarted
    /\ \E o \in Schemas, w \in Schemas :
          unit = [fn |-> "merge", at |-> "call", orig_schema |-> o,
                  merge_with |-> w, new_schema |-> << >>]

\* The call returns the merged list, or raises KeyError.
MergeCall ==
    /\ unit.fn = "merge"
    /\ unit.at = "call"
    /\ IF MergeRaises(unit.orig_schema, unit.merge_with)
       THEN unit' = [unit EXCEPT !.at = "KeyError"]
       ELSE unit' = [unit EXCEPT
                       !.at = "return",
                       !.new_schema = _merge_schemas(unit.orig_schema,
                                                     unit.merge_with)]
    /\ UNCHANGED script

MergeSpec == MergeInit /\ [][MergeCall]_vars

\* ------------------------------------- _hourly_logs_seem_complete, alone
\* The per-bucket counts the bucketing query can return (GROUP BY: every
\* bucket listed holds at least one row).
Counts == {40, 95, 96, 97, 98, 100}
BucketLists == UNION { [1..k -> Counts] : k \in 0..MaxBuckets }

\* difference = (new_count - old_count) * 100.0 / old_count, compared with a
\* whole percentage: old_count > 0, so the comparison is the one of the
\* numerators.
IsDropAtTwoPercent(new_count, old_count) ==
    (new_count - old_count) * 100 <= (-2) * old_count
IsDropBelowThreshold(new_count, old_count) ==
    (new_count - old_count) * 100 < (-3) * old_count
IsDrop(new_count, old_count) ==
    (new_count - old_count) * 100 <= (-3) * old_count
\* difference_from_pre_dip > -2
RecoveredAtThreePercent(new_count, pre_dip_amount) ==
    (new_count - pre_dip_amount) * 100 > (-3) * pre_dip_amount
Recovered(new_count, pre_dip_amount) ==
    (new_count - pre_dip_amount) * 100 > (-2) * pre_dip_amount
\* dip_difference <= -10, dip_difference kept as <<numerator, old_count>>
SevereAtThreePercent(dip_difference) ==
    dip_difference[1] <= (-3) * dip_difference[2]
Severe(dip_difference) == dip_difference[1] <= (-10) * dip_difference[2]

\* The loop is about to start on the query's results.  Buckets are numbered
\* from 1, so i starts at 2; dip_start and dip_end are bucket numbers, 0 for
\* None.
DipInit ==
    /\ NotStarted
    /\ \E r \in BucketLists :
          unit = [fn |-> "dip", at |-> "loop", results |-> r, i |-> 2,
                  dip_start |-> 0, pre_dip_amount |-> 0,
                  dip_difference |-> << 0, 1 >>, dip_end |-> 0,
                  complete |-> TRUE]

\* One iteration of `for i in xrange(1, len(results))`, or the loop's end.
DipLoop ==
    /\ unit.fn = "dip"
    /\ unit.at = "loop"
    /\ IF unit.i > Len(unit.results)
       THEN unit' = [unit EXCEPT !.at = "after"]
       ELSE LET new_count == unit.results[unit.i]
                old_count == unit.results[unit.i - 1]
            IN IF IsDrop(new_count, old_count)
               THEN unit' = [unit EXCEPT
                               !.dip_start = unit.i,
                               !.pre_dip_amount = old_count,
                               !.dip_difference =
                                   << (new_count - old_count) * 100,
                                      old_count >>,
                               !.i = unit.i + 1]
               ELSE IF unit.dip_start # 0
                       /\ Recovered(new_count, unit.pre_dip_amount)
               THEN unit' = [unit EXCEPT !.dip_end = unit.i,
                                         !.at = "after"]
               ELSE unit' = [unit EXCEPT !.i = unit.i + 1]
    /\ UNCHANGED script

\* After the loop: a dip that did not end counts when it was severe ("the
\* end of the hour" is bucket Len + 1); the function returns.
\* `if dip_start and dip_end: ... return False`, else `return True`.
SeemsCompleteOnlyAfterADip(dip_start, dip_end) == dip_start # 0 /\ dip_end = 0
SeemsComplete(dip_start, dip_end) == ~(dip_start # 0 /\ dip_end # 0)
DipReturn ==
    /\ unit.fn = "dip"
    /\ unit.at = "after"
    /\ LET end == IF unit.dip_start # 0 /\ unit.dip_end = 0
                     /\ Severe(unit.dip_difference)
                  THEN Len(unit.results) + 1
                  ELSE unit.dip_end
       IN unit' = [unit EXCEPT
                     !.at = "return",
                     !.dip_end = end,
                     !.complete = SeemsComplete(unit.dip_start, end)]
    /\ UNCHANGED script

DipNext ==
    \/ DipLoop
    \/ DipReturn

DipSpec == DipInit /\ [][DipNext]_vars

\* ------------------------------------------- merge_and_update_schema, alone
\* Schemas whose fields carry a mode or none.
Modes == {"absent", "NULLABLE"}
ModeLeaves == { Leaf(n, m) : n \in FieldNameSet, m \in Modes }
ModeSchemas ==
    SchemasOver(ModeLeaves
                  \cup { Rec(n, "absent", fs) :
                           n \in FieldNameSet, fs \in SchemasOver(ModeLeaves) })

UpdateInit ==
    /\ NotStarted
    /\ \E o \in ModeSchemas, w \in ModeSchemas :
          unit = [fn |-> "update", at |-> "call", orig_schema |-> o,
                  merge_with |-> w, new_schema |-> << >>,
                  orig_after |-> o, merge_with_after |-> w, wrote |-> "none"]

\* merge_and_update_schema(project, table, merge_with) up to its return or
\* the KeyError of _merge_schemas: orig_schema and merge_with are the values
\* at the call, orig_after and merge_with_after what the same two lists hold
\* at the change test.
merge_and_update_schema ==
    /\ unit.fn = "update"
    /\ unit.at = "call"
    /\ IF MergeRaises(unit.orig_schema, unit.merge_with)
       THEN unit' = [unit EXCEPT !.at = "KeyError"]
       ELSE unit' = [unit EXCEPT
                       !.at = "return",
                       !.new_schema = NewSchema(unit.orig_schema,
                                                unit.merge_with),
                       !.orig_after = OrigAfterMerge(unit.orig_schema,
                                                     unit.merge_with),
                       !.merge_with_after =
                           MergeWithAfterMerge(unit.orig_schema,
                                               unit.merge_with),
                       !.wrote = SchemaToWrite(unit.orig_schema,
                                               unit.merge_with, FALSE)]
    /\ UNCHANGED script

UpdateSpec == UpdateInit /\ [][merge_and_update_schema]_vars

\* ------------------------------------------- _times_of_missing_tables, alone
\* The listings of the dataset: the hourly tables from a first one up to
\* the last full hour, less some gaps; daily tables; temp join tables
\* (subquery_*).  end_time is LateHour.
FirstTables == { LateHour - 146, LateHour - 144, LateHour - LateStartHours,
                 LateHour - 4 }
GapPool == { LateHour - 145, LateHour - 143, LateHour - 6, LateHour - 3,
             LateHour - 2, LateHour - 1 }
HourListings ==
    { {} } \cup { (f .. (LateHour - 1)) \ g :
                    f \in FirstTables, g \in SUBSET GapPool }
DayListings(hourT) ==
    SUBSET { DayOf(LateHour) - 1, DayOf(LateHour) }
       \cup { { DayOf(h) : h \in hourT } }

PlanInit ==
    /\ NotStarted
    /\ \E hourT \in HourListings, temp \in BOOLEAN :
         \E dayT \in DayListings(hourT) :
            unit = [fn |-> "plan", at |-> "call", end_time |-> LateHour,
                    hourT |-> hourT, dayT |-> dayT, temp |-> temp,
                    retval |-> << >>]

\* The call returns the list, or raises IndexError.
PlanCall ==
    /\ unit.fn = "plan"
    /\ unit.at = "call"
    /\ LET anyOutput == unit.hourT # {} \/ unit.dayT # {} \/ unit.temp
       IN IF PlannerRaises(unit.hourT, unit.dayT, anyOutput)
          THEN unit' = [unit EXCEPT !.at = "IndexError"]
          ELSE unit' = [unit EXCEPT
                          !.at = "return",
                          !.retval = _times_of_missing_tables(
                                        unit.end_time,
                                        DayOf(unit.end_time) * HoursPerDay,
                                        unit.hourT, unit.dayT, anyOutput)]
    /\ UNCHANGED script

PlanSpec == PlanInit /\ [][PlanCall]_vars

\* ---------------------------------------------------- the vm join, alone
\* The rows of logs_all_time of module vm that the table decorator
\* @start_ms-end_ms selects, as a list; a row is named by its place in the
\* list, and the app_logs of a row with a thread_id are its own entries.
\* "null" is SQL NULL and the string "null", which the query treats alike.
MaxRows == 3
RequestIds == {"r1", "r2"}
ThreadIds == {"t1", "t2"}
WinStart == FirstHour * SecondsPerHour
WinEnd == WinStart + SecondsPerHour
EndTimes == {WinStart - 1, WinStart, WinEnd}
RequestRow(r, e) == [request_id |-> r, thread_id |-> "null", end_time |-> e, elog_country |-> FALSE, bingo_participation_events |-> FALSE, bingo_conversion_events |-> FALSE]
FragmentRow(t, r, e, role) == [request_id |-> r, thread_id |-> t, end_time |-> e, elog_country |-> (role = "kalog"), bingo_participation_events |-> (role = "participation"), bingo_conversion_events |-> (role = "conversion")]
RowTypes ==
    { RequestRow(r, e) : r \in RequestIds, e \in EndTimes }
    \cup { FragmentRow(t, r, e, role) :
             t \in ThreadIds, r \in RequestIds \cup {"null"}, e \in EndTimes,
             role \in {"plain", "kalog", "participation", "conversion"} }
RECURSIVE SetToSeq(_)
SetToSeq(S) ==
    IF S = {} THEN << >>
    ELSE LET x == CHOOSE x \in S : TRUE IN << x >> \o SetToSeq(S \ {x})
RowList == SetToSeq(RowTypes)
\* The order of the rows of a table has no meaning: one list per bag.
RowBags ==
    UNION { { b \in [1..n -> 1..Len(RowList)] :
                \A k \in 1..(n - 1) : b[k] <= b[k + 1] } : n \in 0..MaxRows }

\* _VM_SUBTABLE_QUERY: the rows that finished in [start_time, end_time).
_VM_SUBTABLE_QUERY(T, start_time, end_time) ==
    { k \in DOMAIN T : T[k].end_time >= start_time /\ T[k].end_time < end_time }
\* The subtable without its WHERE clause on end_time.
SubtableOfAllRows(T, start_time, end_time) == DOMAIN T

\* The WITH clauses of _VM_MODULES_QUERY over the subtable S of T.
request(T, S) ==
    { k \in S : T[k].request_id # "null" /\ T[k].thread_id = "null" }
app_log(T, S) == { k \in S : T[k].thread_id # "null" }
link_line(T, S) == { k \in app_log(T, S) : T[k].request_id # "null" }
kalog_line(T, S) == { k \in app_log(T, S) : T[k].elog_country }
bingo_participation_line(T, S) ==
    { k \in app_log(T, S) : T[k].bingo_participation_events }
bingo_conversion_line(T, S) ==
    { k \in app_log(T, S) : T[k].bingo_conversion_events }
OfThread(T, X, t) == { k \in X : T[k].thread_id = t }
\* A LEFT OUTER JOIN keeps the left row once when nothing matches.
Matches(X) == IF X = {} THEN 1 ELSE Cardinality(X)
\* ANY_VALUE over the joined rows: one of the matches, 0 being NULL.
AnyValue(T, X, threads) ==
    UNION { IF OfThread(T, X, t) = {} THEN {0} ELSE OfThread(T, X, t) :
            t \in threads }
\* The rows that link_line joined to app_log, kalog_line and the two bingo
\* lines by thread_id yields for one link line.
JoinedRowsPer(T, S, t) ==
    Matches(OfThread(T, kalog_line(T, S), t))
      * Matches(OfThread(T, bingo_participation_line(T, S), t))
      * Matches(OfThread(T, bingo_conversion_line(T, S), t))
\* joined_applog_lines: one row per request_id of link_line; app_logs[a] is
\* the number of times ARRAY_CONCAT_AGG holds the entries of row a.
joined_applog_lines(T, S) ==
    [ r \in { T[l].request_id : l \in link_line(T, S) } |->
        LET links == { l \in link_line(T, S) : T[l].request_id = r }
            threads == { T[l].thread_id : l \in links }
        IN [ app_logs |->
               [ a \in DOMAIN T |->
                   IF a \in app_log(T, S) /\ T[a].thread_id \in threads
                   THEN Cardinality(OfThread(T, links, T[a].thread_id))
                          * JoinedRowsPer(T, S, T[a].thread_id)
                   ELSE 0 ],
             elog |-> AnyValue(T, kalog_line(T, S), threads),
             bingo_participation_events |->
               AnyValue(T, bingo_participation_line(T, S), threads),
             bingo_conversion_events |->
               AnyValue(T, bingo_conversion_line(T, S), threads) ] ]
NullFragmentFields(T) == [app_logs |-> [a \in DOMAIN T |-> 0], elog |-> {0}, bingo_participation_events |-> {0}, bingo_conversion_events |-> {0}]
\* The final SELECT with an inner join in place of the left outer join.
InnerJoinQuery(T, S) ==
    LET joined == joined_applog_lines(T, S)
    IN [ q \in { k \in request(T, S) : T[k].request_id \in DOMAIN joined } |->
           [ request_id |-> T[q].request_id,
             fragment |-> joined[T[q].request_id] ] ]
\* The final SELECT: request LEFT OUTER JOIN joined_applog_lines; one row of
\* output per row of request and matching row of joined_applog_lines.
_VM_MODULES_QUERY(T, S) ==
    LET joined == joined_applog_lines(T, S)
    IN [ q \in request(T, S) |->
           [ request_id |-> T[q].request_id,
             fragment |-> IF T[q].request_id \in DOMAIN joined
                          THEN joined[T[q].request_id]
                          ELSE NullFragmentFields(T) ] ]

JoinInit ==
    /\ NotStarted
    /\ \E b \in RowBags :
         unit = [fn |-> "join", at |-> "call",
                 rows |-> [k \in DOMAIN b |-> RowList[b[k]]],
                 start_time |-> WinStart, end_time |-> WinEnd]

\* The two queries of a build: the subtable, then the join over it.
JoinCall ==
    /\ unit.fn = "join"
    /\ unit.at = "call"
    /\ unit' = [fn |-> "join", at |-> "return", rows |-> unit.rows,
                start_time |-> unit.start_time, end_time |-> unit.end_time,
                output |-> _VM_MODULES_QUERY(
                             unit.rows,
                             _VM_SUBTABLE_QUERY(unit.rows, unit.start_time,
                                                unit.end_time))]
    /\ UNCHANGED script

JoinSpec == JoinInit /\ [][JoinCall]_vars

\* ================================================================== claims
\* Python ends a process with status 1 when an exception leaves main.
Escaped == exitStatus = 1

\* C1: after any run has ended, every hourly table that exists holds both
\* populations and has passed the completeness check.
C1_NoPartialTableAfterRun ==
    pc = "idle" => \A h \in Hours : hourly[h].st \in {"absent", "passed"}

\* C2: from the moment a call finds the hourly table of its window until the
\* window is left, no mutating call is issued and nothing in the warehouse
\* changes; and the planner schedules no window whose table exists.
C2_ExistingTableIsSkipped ==
    [][ /\ skipped => (calls' = calls /\ warehouse' = warehouse)
        /\ (pc = "plan" /\ pc' = "loop")
           => \A k \in 1..Len(todo') : hourly[todo'[k]].st = "absent"
      ]_vars

\* C3: the rows of any one window are appended to the daily table at most
\* once, over all runs.
C3_AppendedAtMostOnce == \A h \in Hours : appended[h] <= 1

\* C4: a signal that arrives while a window is in progress ends the run
\* with that window's hourly table deleted, and no further window is started.
C4_SignalDeletesAndHalts ==
    /\ (sigWin # 0) => pc \in {"sig_cleanup", "idle"}
    /\ (pc = "idle" /\ sigWin # 0) => hourly[sigWin].st = "absent"

\* C5: a window is attempted at most twice, and the second attempt builds
\* again, the table of the first having been deleted, reading the source
\* up to now.
C5_RetryRebuildsOnce ==
    /\ attempt <= 2
    /\ (attempt = 2 /\ pc = "show")
          => (hourly[cur].st = "absent" /\ p_search /\ end_ms = now * 1000)

\* C6: when the append to an existing daily table is issued for real, the
\* daily table's stored schema holds every column of the hourly table's, at
\* every nesting level.
C6_DailyCoversHourlyAtAppend ==
    (pc = "cp" /\ ~p_dry /\ daily[DayOf(cur)].exists
        /\ hourly[cur].st # "absent")
       => Covers(daily[DayOf(cur)].schema, StreamSchema(hourly[cur].sch))

\* C7: with the dry-run flag set no mutating warehouse call is issued.
C7_DryRunIssuesNoMutation == dry_run => calls = {}

\* C8: a run with an aborted window ends with a non-zero status and with no
\* exception leaving main; only a run without aborted window exits 0.
C8_AbortedRunExitsNonZero ==
    (pc = "idle" /\ runs > 0)
       => /\ aborted => (exitStatus # 0 /\ ~Escaped)
          /\ exitStatus = 0 => ~aborted

\* C9: the waiter raises "never got up to date" only after 10 polls at
\* end = now that all said not ready; the window then has no hourly table,
\* is not retried, and the loop goes on to the next window (unless a signal
\* interrupts the clean-up).
C9_NeverCaughtUpIsFatal ==
    [][ /\ (exc' = "RuntimeError" /\ exc # "RuntimeError")
           => (pc = "wait2" /\ i = WaitAttempts
               /\ Len(sleeps) = WaitAttempts)
        /\ (pc = "wait2" /\ pc' = "wait2") => i' <= WaitAttempts
        /\ (pc = "err_cleanup" /\ exc = "RuntimeError" /\ signals' = signals)
           => (pc' = "loop" /\ todo' = todo /\ attempt = 1
               /\ hourly'[cur].st = "absent")
      ]_vars
C9_Witness ==
    pc = "err_cleanup" /\ exc = "RuntimeError" /\ todo # << >>

\* C10: when the waiter returns after k polls at end = now that said not
\* ready, it has slept exactly k times, the j-th sleep lasting
\* 60 * 1.5^(j-1) seconds, each longer than the one before.
C10_BackoffSleeps ==
    (pc \in {"wait2", "show"})
       => /\ Len(sleeps) = i
          /\ \A j \in 1..Len(sleeps) :
                sleeps[j] * Pow(2, j - 1) = WaitBase * Pow(3, j - 1) * Pow(2, 9)
          /\ \A j \in 1..(Len(sleeps) - 1) : sleeps[j] < sleeps[j + 1]
C10_Witness == pc = "show" /\ Len(sleeps) = 3 /\ i = 3

\* Every field of target t, at every nesting level, is in m under the same
\* name with the same type.
RECURSIVE KeepsTargetTypes(_, _)
KeepsTargetTypes(t, m) ==
    \A k \in 1..Len(t) :
       \E j \in 1..Len(m) :
          /\ m[j].name = t[k].name
          /\ m[j].type = t[k].type
          /\ (t[k].type = "RECORD"
                => KeepsTargetTypes(t[k].fields, m[j].fields))

\* C11: the schema _merge_schemas returns holds every field of the target
\* schema, subfields of its records included, with the target's type.
C11_MergeKeepsTargetFields ==
    (unit.fn = "merge" /\ unit.at = "return")
       => KeepsTargetTypes(unit.orig_schema, unit.new_schema)

\* The names of m at one level are those of t and w together, none twice,
\* and so on below every name that is a record in both t and w.
RECURSIVE NamesKept(_, _, _)
NamesKept(t, w, m) ==
    /\ UniqueNames(m)
    /\ FieldNames(m) = FieldNames(t) \cup FieldNames(w)
    /\ \A j \in 1..Len(t), k \in 1..Len(w) :
          (t[j].name = w[k].name /\ t[j].type = "RECORD"
             /\ w[k].type = "RECORD")
          => /\ m[MapIndex(m, t[j].name)].type = "RECORD"
             /\ NamesKept(t[j].fields, w[k].fields,
                          m[MapIndex(m, t[j].name)].fields)

C13_MergeIsIdempotent ==
    (unit.fn = "merge" /\ unit.orig_schema = unit.merge_with)
       => /\ unit.at # "KeyError"
          /\ unit.at = "return" => unit.new_schema = unit.orig_schema
C13_Witness ==
    /\ unit.fn = "merge"
    /\ unit.at = "return"
    /\ unit.orig_schema = unit.merge_with
    /\ Len(unit.orig_schema) = 2
    /\ \E k \in 1..2 : /\ unit.orig_schema[k].type = "RECORD"
                        /\ Len(unit.orig_schema[k].fields) = 2

\* Bucket k of r is pct percent or more below bucket k - 1; count c is less
\* than pct percent below ref.
DropsBy(r, k, pct) == (r[k] - r[k - 1]) * 100 <= (-pct) * r[k - 1]
Within(c, ref, pct) == (c - ref) * 100 > (-pct) * ref
\* The last of buckets 2..n of r that is 3% or more below its predecessor
\* (0: none).
LastDrop(r, n) ==
    LET D == { k \in 2..n : DropsBy(r, k, 3) }
    IN IF D = {} THEN 0 ELSE CHOOSE k \in D : \A j \in D : j <= k
\* Some bucket j of r that is not itself such a drop is less than 2% below
\* the bucket before the last drop ahead of it.
SomeDipEnds(r) ==
    \E j \in 2..Len(r) :
       LET d == LastDrop(r, j)
       IN d # 0 /\ d < j /\ Within(r[j], r[d - 1], 2)

\* C14 (as stated): once a dip has started, later buckets neither restart
\* it nor replace the pre-dip reference count.
C14_DipKeepsItsReference ==
    [][ (unit.fn = "dip" /\ unit.at = "loop" /\ unit.dip_start # 0)
          => /\ unit'.dip_start = unit.dip_start
             /\ unit'.pre_dip_amount = unit.pre_dip_amount ]_vars

\* C14 (amended): the dip starts at the last bucket examined that is 3% or
\* more below its predecessor, whose count is the reference; it is ended
\* only by the first later bucket that is less than 2% below that reference.
C14_DipRestartsAtEachDrop ==
    (unit.fn = "dip") =>
       LET r == unit.results
           seen == IF unit.i > Len(r) THEN Len(r) ELSE
                   IF unit.at = "loop" THEN unit.i - 1 ELSE unit.i
           d == LastDrop(r, seen)
       IN /\ unit.dip_start = d
          /\ d # 0 => unit.pre_dip_amount = r[d - 1]
          /\ unit.dip_end \in 1..Len(r)
                => /\ d # 0
                   /\ d < unit.dip_end
                   /\ unit.dip_end = seen
                   /\ Within(r[unit.dip_end], r[d - 1], 2)
          /\ d # 0 =>
                \A k \in (d + 1)..seen :
                   Within(r[k], r[d - 1], 2) => unit.dip_end = k
C14_Witness ==
    /\ unit.fn = "dip"
    /\ unit.at = "return"
    /\ unit.results = << 100, 95, 40, 96 >>
    /\ unit.dip_start = 3
    /\ unit.pre_dip_amount = 95
    /\ unit.dip_end = 4

C16_DipThenRecoveryIsIncomplete ==
    (unit.fn = "dip" /\ unit.at = "return"
       /\ \E d \in 2..Len(unit.results) :
             /\ DropsBy(unit.results, d, 3)
             /\ \E j \in (d + 1)..Len(unit.results) :
                   Within(unit.results[j], unit.results[d - 1], 2))
    => ~unit.complete
C16_Witness ==
    /\ unit.fn = "dip"
    /\ unit.at = "return"
    /\ unit.results = << 100, 100, 100, 40, 100, 100 >>
    /\ ~unit.complete

\* C17: when every bucket is less than 3% below its predecessor the table
\* is reported complete.
C17_GradualDeclineIsComplete ==
    (unit.fn = "dip" /\ unit.at = "return"
       /\ \A k \in 2..Len(unit.results) : ~DropsBy(unit.results, k, 3))
    => unit.complete
C17_Witness ==
    /\ unit.fn = "dip"
    /\ unit.at = "return"
    /\ unit.results = << 100, 98, 97, 96, 95 >>
    /\ unit.complete

\* C18: a window that started more than 5 hours before now is not handed to
\* the dip detection and is never discarded as incomplete.
C18_SettledWindowSkipsValidation ==
    (cur # 0 /\ now - cur * SecondsPerHour > 5 * SecondsPerHour)
       => pc \notin {"validate", "inc_rm"}

\* The hours of a list.
HoursOf(r) == { r[k] : k \in 1..Len(r) }
\* The lower bound of the planner: 6 days before end_time or the earliest
\* hourly table, whichever is later.
LowerBound(end_time, hourT) ==
    LET horizon == end_time - LookbackDays * HoursPerDay
        earliest == CHOOSE h \in hourT : \A g \in hourT : h <= g
    IN IF hourT # {} /\ earliest > horizon THEN earliest ELSE horizon

C20_PlannerLowerBound ==
    (unit.fn = "plan") =>
       /\ unit.at # "IndexError"
       /\ unit.at = "return" =>
             \A h \in HoursOf(unit.retval) :
                h >= LowerBound(unit.end_time, unit.hourT)

\* C21: when the listing holds no hourly and no daily table (it is empty, or
\* holds only temp join tables), the planner returns, without raising,
\* exactly the hours from 00:00 of the current day up to, excluding, end_time.
C21_NoTablesPlansToday ==
    (unit.fn = "plan" /\ unit.at # "call"
       /\ unit.hourT = {} /\ unit.dayT = {}) =>
       /\ unit.at = "return"
       /\ unit.retval = SortedSeq(
             (DayOf(unit.end_time) * HoursPerDay) .. (unit.end_time - 1))

\* The rows of the read window, by what they are.
IsRequestRow(row) == row.request_id # "null" /\ row.thread_id = "null"
IsFragment(row) == row.thread_id # "null"
IsLinkOf(row, r) == IsFragment(row) /\ row.request_id = r
InWindow(row) == row.end_time >= unit.start_time /\ row.end_time < unit.end_time
Returned == unit.fn = "join" /\ unit.at = "return"

\* C22: the output of the join holds at most one row per request_id.
C22_OneRowPerRequestId ==
    Returned =>
       \A r \in RequestIds :
          Cardinality({ q \in DOMAIN unit.output :
                          unit.output[q].request_id = r }) <= 1
\* The same, for read windows that hold each request row once.
C22_OneRowPerRequestRow ==
    (Returned /\ \A j, k \in DOMAIN unit.rows :
                    (IsRequestRow(unit.rows[j]) /\ IsRequestRow(unit.rows[k])
                       /\ unit.rows[j].request_id = unit.rows[k].request_id)
                    => j = k) =>
       \A r \in RequestIds :
          Cardinality({ q \in DOMAIN unit.output :
                          unit.output[q].request_id = r }) <= 1

\* C23: every request row that finished in [start_time, end_time) is a row of
\* the output, and when no link line of the read window carries its
\* request_id its fragment-derived fields are null or empty.
C23_RequestRowsAreKept ==
    Returned =>
       \A k \in DOMAIN unit.rows :
          (IsRequestRow(unit.rows[k]) /\ InWindow(unit.rows[k])) =>
             /\ k \in DOMAIN unit.output
             /\ unit.output[k].request_id = unit.rows[k].request_id
             /\ (\A l \in DOMAIN unit.rows :
                    ~IsLinkOf(unit.rows[l], unit.rows[k].request_id))
                  => unit.output[k].fragment = NullFragmentFields(unit.rows)
C23_Witness ==
    /\ Returned
    /\ \E k, a \in DOMAIN unit.rows :
          /\ IsRequestRow(unit.rows[k]) /\ InWindow(unit.rows[k])
          /\ IsFragment(unit.rows[a]) /\ InWindow(unit.rows[a])
          /\ \A l \in DOMAIN unit.rows :
                ~IsLinkOf(unit.rows[l], unit.rows[k].request_id)
          /\ k \in DOMAIN unit.output
          /\ unit.output[k].fragment = NullFragmentFields(unit.rows)

\* C24: the app_logs of an output row hold, exactly once, the entries of
\* every fragment of the read window whose thread_id a link line ties to the
\* row's request_id, whatever the end_time of the fragment.
C24_AppLogsOfEveryFragmentOnce ==
    Returned =>
       \A q \in DOMAIN unit.output :
          \A a \in DOMAIN unit.rows :
             (/\ IsFragment(unit.rows[a])
              /\ \E l \in DOMAIN unit.rows :
                    /\ IsLinkOf(unit.rows[l], unit.output[q].request_id)
                    /\ unit.rows[l].thread_id = unit.rows[a].thread_id)
             => unit.output[q].fragment.app_logs[a] = 1
\* The same, for fragments that all finished inside the window.
C24_InWindowFragmentsOnce ==
    (Returned /\ \A a \in DOMAIN unit.rows : InWindow(unit.rows[a])) =>
       \A q \in DOMAIN unit.output :
          \A a \in DOMAIN unit.rows :
             (/\ IsFragment(unit.rows[a])
              /\ \E l \in DOMAIN unit.rows :
                    /\ IsLinkOf(unit.rows[l], unit.output[q].request_id)
                    /\ unit.rows[l].thread_id = unit.rows[a].thread_id)
             => unit.output[q].fragment.app_logs[a] = 1

\* The stage of a position of _create_hourly_table.
StageOf(p) ==
    CASE p \in {"begin", "wait1", "wait2"} -> 1
      [] p \in {"show", "mk", "q_sub", "q_nonvm", "q_vm"} -> 2
      [] p = "validate" -> 3
      [] p \in {"merge", "cp"} -> 4
      [] OTHER -> 5
\* C25: within an attempt the stages wait, build, validate, publish follow
\* one another in that order; the publish stage is entered only from the
\* validator saying complete about the table this attempt built, the append
\* happens only there, and nothing leads from an incomplete verdict or a
\* failed step to the publish stage.
C25_StagesInOrder ==
    [][ /\ (pc \in InTry /\ pc' \in InTry /\ cur' = cur /\ attempt' = attempt)
            => StageOf(pc') >= StageOf(pc)
        /\ (StageOf(pc') = 4 /\ StageOf(pc) # 4)
            => /\ pc = "validate"
               /\ hourly[cur].st = "built"
               /\ hourly'[cur].st = "passed"
               /\ ~skipped
        /\ (\E h \in Hours : appended'[h] # appended[h])
            => /\ pc = "cp"
               /\ appended' = [appended EXCEPT ![cur] = @ + 1]
               /\ hourly[cur].st = "passed"
        /\ pc \in {"inc_rm", "err_cleanup", "sig_cleanup"}
            => StageOf(pc') # 4 ]_vars
C25_Witness ==
    /\ pc = "ret"
    /\ ~skipped
    /\ attempt = 2
    /\ appended[cur] = 1
    /\ hourly[cur].st = "passed"

\* C26: the end boundary _table_decorator_end_time returns for end_time T is
\* at least T + 16 minutes, whichever loop returns it.
C26_WaiterEndsLate ==
    (pc = "show" /\ ~p_search) => end_ms >= FirstEndMs(EndTimeOf(cur))

\* C27: the first attempt of a window of a run started with -i searches and
\* applies dry_run as the first attempt of the run without -i does: it waits
\* for the source, reads the bounded range, and has the same dry_run.
C27_InteractiveOnlySetsPriority ==
    (attempt = 1 /\ pc \in InTry) =>
       /\ p_search = FirstCallParams(FALSE, dry_run)[1]
       /\ p_dry = FirstCallParams(FALSE, dry_run)[3]

\* C28: after merge_and_update_schema has computed the merged schema, the
\* schema read from the table and merge_with are what they were at the call.
C28_MergeLeavesInputsAlone ==
    (unit.fn = "update" /\ unit.at = "return") =>
       /\ unit.orig_after = unit.orig_schema
       /\ unit.merge_with_after = unit.merge_with

\* C29: the clean-up after a failed, incomplete or cancelled window changes
\* no hourly table but the one of the window being processed and no daily
\* table; and no step at all changes the hourly table of another window.
C29_CleanupTouchesOnlyItsWindow ==
    [][ /\ \A h \in Hours : hourly'[h] # hourly[h] => h = cur
        /\ pc \in {"inc_rm", "err_cleanup", "sig_cleanup"}
            => (daily' = daily /\ appended' = appended) ]_vars
C29_Witness ==
    /\ pc = "loop"
    /\ aborted
    /\ todo = << >>
    /\ "rm" \in calls
    /\ hourly[LastHour - 2].st = "passed"
    /\ appended[LastHour - 2] = 1
    /\ hourly[LastHour - 1] = Absent

\* C30: a table whose bucket query yields no row or one row is reported
\* complete.
C30_FewBucketsAreComplete ==
    (unit.fn = "dip" /\ unit.at = "return" /\ Len(unit.results) <= 1)
       => unit.complete
C30_Witness ==
    /\ unit.fn = "dip"
    /\ unit.at = "return"
    /\ unit.results = << >>
    /\ unit.complete

====
